---- MODULE Spec2Model ----
(***************************************************************************)
(* Model of mcjointcoll (src/main.cpp): the PhysX session lifecycle        *)
(* (initPhysics / deinitPhysics), the entity factory, addFixedJoint with   *)
(* its filter-data workaround, updateStates, and the main loop.            *)
(*                                                                         *)
(* Lengths are integers.  Rotations are the integer unit quaternions       *)
(* (+-1, +-i, +-j, +-k): the identity and the half turns about the axes,   *)
(* on which PxQuat::rotate and glm::mat4_cast are exact.                   *)
(***************************************************************************)
EXTENDS Integers, Sequences, FiniteSets, TLC

VARIABLES
    px,        \* the physics session: the six g* handles and the engine's objects
    world,     \* the engine's rigid bodies, the scene's actor list, the joints
    ent,       \* the Entity objects (position, rotation, scale)
    defect,    \* which engine calls reset the second body's filter data
    pc,        \* position of the single thread
    exitCode,  \* process exit code, -1 while running
    polled,    \* what SDL_PollEvent delivered in this tick
    elapsed,   \* t1 - t0 in seconds, as last measured
    createJoint, \* local flag of main
    ticks,     \* completed loop iterations
    tickLog,   \* engine / graphics calls made in the current tick
    drawn,     \* boxes drawn since the last clear
    hist       \* observations of the last call (what a test would record)

vars == <<px, world, ent, defect, pc, exitCode, polled, elapsed, createJoint,
          ticks, tickLog, drawn, hist>>

----------------------------------------------------------------------------
(* Bounds *)
MaxCalls == 6
MaxShapes == 2
MaxTicks == 3
MaxAdvance == 2

(* Program constants *)
JointDelay == 3
NULL == 0

----------------------------------------------------------------------------
(* Vectors, quaternions, transforms *)

VAdd(a, b) == <<a[1] + b[1], a[2] + b[2], a[3] + b[3]>>
VNeg(a) == <<-a[1], -a[2], -a[3]>>
VScale2(a) == <<2 * a[1], 2 * a[2], 2 * a[3]>>
VEC3_ZERO == <<0, 0, 0>>

\* PxQuat(x, y, z, w): components in that order
PxQuat(x, y, z, w) == <<x, y, z, w>>
PxIdentity == PxQuat(0, 0, 0, 1)

\* PxQuat::operator* (Hamilton product)
QMul(a, b) ==
    LET ax == a[1] ay == a[2] az == a[3] aw == a[4]
        bx == b[1] by == b[2] bz == b[3] bw == b[4]
    IN PxQuat(aw * bx + bw * ax + ay * bz - by * az,
              aw * by + bw * ay + az * bx - bz * ax,
              aw * bz + bw * az + ax * by - bx * ay,
              aw * bw - ax * bx - ay * by - az * bz)

QConj(q) == PxQuat(-q[1], -q[2], -q[3], q[4])

\* PxQuat::rotate: v*(2w^2 - 1) + 2w (q x v) + 2 q (q . v)
QRotate(q, v) ==
    LET x == q[1] y == q[2] z == q[3] w == q[4]
        w2 == 2 * w * w - 1
        dot2 == 2 * (x * v[1] + y * v[2] + z * v[3])
    IN <<v[1] * w2 + 2 * w * (y * v[3] - z * v[2]) + x * dot2,
         v[2] * w2 + 2 * w * (z * v[1] - x * v[3]) + y * dot2,
         v[3] * w2 + 2 * w * (x * v[2] - y * v[1]) + z * dot2>>

PxTransform(p, q) == [p |-> p, q |-> q]

\* PxTransform::operator* : a * b = (a.q.rotate(b.p) + a.p, a.q * b.q)
TMul(a, b) == PxTransform(VAdd(QRotate(a.q, b.p), a.p), QMul(a.q, b.q))

\* PxTransform::getInverse
TInverse(t) == PxTransform(QRotate(QConj(t.q), VNeg(t.p)), QConj(t.q))

\* glm::quat(w, x, y, z): components in that order
GlmQuat(w, x, y, z) == <<w, x, y, z>>

toPxVec3(v) == <<v[1], v[2], v[3]>>
toVec3(v) == <<v[1], v[2], v[3]>>
\* a variant that passes the components in PxQuat order
toQuatXYZW(q) == GlmQuat(q[1], q[2], q[3], q[4])

toQuat(q) == GlmQuat(q[4], q[1], q[2], q[3])

----------------------------------------------------------------------------
(* Physics session *)

Handles == {"gFoundation", "gDispatcher", "gCooking", "gPhysics",
            "gPhysicsMaterial", "gPhysicsScene"}

\* the engine object a handle value refers to is px.objs[h]
NewObj(kind, deps) == [kind |-> kind, deps |-> deps, live |-> TRUE]

PxInit ==
    [gFoundation |-> NULL, gDispatcher |-> NULL, gCooking |-> NULL,
     gPhysics |-> NULL, gPhysicsMaterial |-> NULL, gPhysicsScene |-> NULL,
     objs |-> << >>, relLog |-> << >>, nullDeref |-> FALSE, crashed |-> FALSE]

\* initPhysics(): ret is the returned bool, s the session afterwards.
\* cookOk: whether PxCreateCooking succeeds.
\* a variant that tests the cooking handle instead of the foundation
AlreadyInitCooking(s) == s.gCooking # NULL

\* the guard of initPhysics
AlreadyInit(s) == s.gFoundation # NULL

initPhysics(s, cookOk) ==
    IF AlreadyInit(s)
    THEN [ret |-> FALSE, s |-> s]
    ELSE
      LET n      == Len(s.objs)
          fnd    == n + 1
          pzm    == n + 2
          phy    == n + 3
          dsp    == n + 4
          cook   == IF cookOk THEN n + 5 ELSE NULL
          m      == IF cookOk THEN n + 5 ELSE n + 4
          mat    == m + 1
          scn    == m + 2
          objs1  == s.objs
                    \o << NewObj("foundation", {}),
                          NewObj("profileZoneManager", {fnd}),
                          NewObj("physics", {fnd, pzm}),
                          NewObj("dispatcher", {}) >>
          objs2  == IF cookOk THEN Append(objs1, NewObj("cooking", {fnd}))
                    ELSE objs1
          objs3  == objs2 \o << NewObj("material", {phy}),
                                NewObj("scene", {phy, dsp}) >>
      IN [ret |-> TRUE,
          s   |-> [s EXCEPT !.gFoundation = fnd, !.gPhysics = phy,
                            !.gDispatcher = dsp, !.gCooking = cook,
                            !.gPhysicsMaterial = mat, !.gPhysicsScene = scn,
                            !.objs = objs3]]

\* PxPhysics::getProfileZoneManager
getProfileZoneManager(s) ==
    IF s.gPhysics = NULL THEN NULL
    ELSE CHOOSE d \in s.objs[s.gPhysics].deps : s.objs[d].kind = "profileZoneManager"

\* h->release() reached through the expression `via`.  A call through a null
\* pointer is undefined: the process faults (crash) or the call has no effect.
RECURSIVE ReleaseAll(_, _, _)
ReleaseAll(s, calls, crash) ==
    IF calls = << >> THEN s
    ELSE
      LET c  == Head(calls)
          s1 == [s EXCEPT !.relLog = Append(@, c)]
      IN IF c.h = NULL
         THEN IF crash
              THEN [s1 EXCEPT !.nullDeref = TRUE, !.crashed = TRUE]
              ELSE ReleaseAll([s1 EXCEPT !.nullDeref = TRUE], Tail(calls), crash)
         ELSE ReleaseAll([s1 EXCEPT !.objs[c.h].live = FALSE], Tail(calls), crash)

Call(via, h) == [via |-> via, h |-> h]

\* a variant that tests the scene handle instead of the foundation
NotInitScene(s) == s.gPhysicsScene = NULL

\* the guard of deinitPhysics
NotInit(s) == s.gFoundation = NULL

\* deinitPhysics()
deinitPhysics(s, crash) ==
    IF NotInit(s)
    THEN s
    ELSE
      LET s1 == ReleaseAll(s,
                  << Call("gPhysicsScene", s.gPhysicsScene),
                     Call("gDispatcher", s.gDispatcher),
                     Call("gPhysics", s.gPhysics),
                     Call("profileZoneManager", getProfileZoneManager(s)),
                     Call("gCooking", s.gCooking),
                     Call("gFoundation", s.gFoundation) >>, crash)
      IN IF s1.crashed THEN s1
         ELSE [s1 EXCEPT !.gDispatcher = NULL, !.gPhysics = NULL,
                         !.gCooking = NULL, !.gFoundation = NULL]

----------------------------------------------------------------------------
(* Entities and rigid bodies.  Lengths are in quarters of a scene unit, so  *)
(* that the half extents 0.25, 0.5 and 1.5 of main() are the integers 1, 2  *)
(* and 6.                                                                   *)

\* PxFilterData(): four zero words
PxFilterData0 == <<0, 0, 0, 0>>

\* Entity(): the member initialisers of struct Entity
Entity == [position |-> <<4, 4, 4>>,
           rotation |-> GlmQuat(0, 0, 0, 1),
           scale    |-> <<4, 4, 4>>]

WorldInit == [body |-> << >>, actors |-> << >>, joints |-> << >>]

\* createRigidDynamic / createRigidStatic followed by createShape
NewBody(dynamic, position, halfsize, userData) ==
    [dynamic  |-> dynamic,
     pose     |-> PxTransform(position, PxIdentity),
     shapes   |-> << [geom |-> halfsize, fd |-> PxFilterData0] >>,
     mass     |-> 0,
     userData |-> userData]

\* addEntityBox(mass, halfsize, position); id names the new entity and body
addEntityBox(w, e, id, mass, halfsize, position) ==
    [world |-> [w EXCEPT
                  !.body = (id :> [NewBody(TRUE, position, halfsize, id)
                                     EXCEPT !.mass = mass]) @@ @,
                  !.actors = Append(@, id)],
     ent   |-> (id :> [Entity EXCEPT !.scale = VScale2(halfsize),
                                      !.position = position]) @@ e]

\* initGround(halfsize, position)
initGround(w, e, id, halfsize, position) ==
    [world |-> [w EXCEPT
                  !.body = (id :> NewBody(FALSE, position, halfsize, NULL)) @@ @,
                  !.actors = Append(@, id)],
     ent   |-> (id :> [Entity EXCEPT !.scale = VScale2(halfsize),
                                      !.position = position]) @@ e]

\* getFilterData(entity)
getFilterData(w, id) ==
    [i \in 1..Len(w.body[id].shapes) |-> w.body[id].shapes[i].fd]

\* setFilterData(entity, filterData)
setFilterData(w, id, filterData) ==
    [w EXCEPT !.body[id].shapes =
        [i \in 1..Len(@) |-> [@[i] EXCEPT !.fd = filterData[i]]]]

\* the observed engine defect: every shape of the body gets PxFilterData()
ResetFilterData(w, id) ==
    [w EXCEPT !.body[id].shapes =
        [i \in 1..Len(@) |-> [@[i] EXCEPT !.fd = PxFilterData0]]]

\* PxFixedJointCreate(physics, actor0, localFrame0, actor1, localFrame1)
PxFixedJointCreate(w, actor0, frame0, actor1, frame1, dfct) ==
    LET w1 == [w EXCEPT !.joints = Append(@,
                 [actor0 |-> actor0, frame0 |-> frame0,
                  actor1 |-> actor1, frame1 |-> frame1,
                  collisionEnabled |-> TRUE])]
    IN IF "create" \in dfct THEN ResetFilterData(w1, actor1) ELSE w1

\* joint->setConstraintFlag(eCOLLISION_ENABLED, value) on the newest joint
setConstraintFlag(w, value, dfct) ==
    LET j  == Len(w.joints)
        w1 == [w EXCEPT !.joints[j].collisionEnabled = value]
    IN IF "flag" \in dfct THEN ResetFilterData(w1, w.joints[j].actor1) ELSE w1

\* addFixedJoint(entityA, posA, entityB, posB, useWorkaround)
addFixedJoint(w, entityA, posA, entityB, posB, useWorkaround, dfct) ==
    LET otherPXTr   == w.body[entityB].pose
        meAnchor    == PxTransform(toPxVec3(posA), PxIdentity)
        otherAnchor == PxTransform(toPxVec3(posB), PxIdentity)
        newMeTr     == TMul(TMul(TInverse(meAnchor), otherPXTr), otherAnchor)
        w1 == [w EXCEPT !.body[entityA].pose = newMeTr]
        w2 == PxFixedJointCreate(w1, entityB, otherAnchor, entityA, meAnchor, dfct)
    IN IF useWorkaround
       THEN LET fd == getFilterData(w2, entityA)
                w3 == setConstraintFlag(w2, FALSE, dfct)
            IN setFilterData(w3, entityA, fd)
       ELSE setConstraintFlag(w2, FALSE, dfct)

\* the eRIGID_DYNAMIC actors of the scene
DynamicActors(w) ==
    {w.actors[i] : i \in {k \in 1..Len(w.actors) : w.body[w.actors[k]].dynamic}}

\* updateStates(): every dynamic actor writes its pose into its userData entity
updateStates(w, e) ==
    [id \in DOMAIN e |->
        IF \E a \in DynamicActors(w) : w.body[a].userData = id
        THEN LET a == CHOOSE a \in DynamicActors(w) : w.body[a].userData = id
                 localTm == w.body[a].pose
             IN [e[id] EXCEPT !.position = toVec3(localTm.p),
                              !.rotation = toQuat(localTm.q)]
        ELSE e[id]]

\* glm::mat4_cast(q) * glm::scale(s), then the translation: the three
\* rotated and scaled axes and the position, as the columns of the matrix
getModelMatrix(entity) ==
    LET w == entity.rotation[1] x == entity.rotation[2]
        y == entity.rotation[3] z == entity.rotation[4]
        s == entity.scale
    IN << <<s[1] * (1 - 2 * (y * y + z * z)), s[1] * (2 * (x * y + w * z)),
            s[1] * (2 * (x * z - w * y))>>,
          <<s[2] * (2 * (x * y - w * z)), s[2] * (1 - 2 * (x * x + z * z)),
            s[2] * (2 * (y * z + w * x))>>,
          <<s[3] * (2 * (x * z + w * y)), s[3] * (2 * (y * z - w * x)),
            s[3] * (1 - 2 * (x * x + y * y))>>,
          entity.position >>

----------------------------------------------------------------------------
(* Observations shared by the specifications *)

HistInit ==
    [op |-> "none", pre |-> PxInit, ret |-> TRUE, n |-> 0,
     posA |-> VEC3_ZERO, posB |-> VEC3_ZERO, useWorkaround |-> FALSE,
     fdBefore |-> << >>,
     timedJoints |-> 0, jointElapsed |-> 0, jointLog |-> << >>,
     exceeded |-> FALSE, quitPolled |-> FALSE, shutdown |-> << >>]

Defects == SUBSET {"create", "flag"}

----------------------------------------------------------------------------
(* SpecSession: initPhysics() and deinitPhysics() called in any order *)

InitSession ==
    /\ px = PxInit
    /\ world = WorldInit
    /\ ent = << >>
    /\ defect = {}
    /\ pc = "api"
    /\ exitCode = -1
    /\ polled = "none"
    /\ elapsed = 0
    /\ createJoint = FALSE
    /\ ticks = 0
    /\ tickLog = << >>
    /\ drawn = << >>
    /\ hist = HistInit

InitPhysicsCall ==
    /\ pc = "api"
    /\ ~px.crashed
    /\ hist.n < MaxCalls
    /\ \E cookOk \in BOOLEAN :
         LET r == initPhysics(px, cookOk)
         IN /\ px' = r.s
            /\ hist' = [hist EXCEPT !.op = "initPhysics", !.pre = px,
                                    !.ret = r.ret, !.n = @ + 1]
    /\ UNCHANGED <<world, ent, defect, pc, exitCode, polled, elapsed,
                   createJoint, ticks, tickLog, drawn>>

DeinitPhysicsCall ==
    /\ pc = "api"
    /\ ~px.crashed
    /\ hist.n < MaxCalls
    /\ \E crash \in BOOLEAN :
         /\ px' = deinitPhysics(px, crash)
         /\ hist' = [hist EXCEPT !.op = "deinitPhysics", !.pre = px,
                                 !.n = @ + 1]
    /\ UNCHANGED <<world, ent, defect, pc, exitCode, polled, elapsed,
                   createJoint, ticks, tickLog, drawn>>

NextSession == InitPhysicsCall \/ DeinitPhysicsCall

SpecSession == InitSession /\ [][NextSession]_vars

----------------------------------------------------------------------------
(* SpecJoint: addFixedJoint(A, posA, B, posB, useWorkaround) applied to two *)
(* dynamic bodies in any pose, with any filter data on A's shapes           *)

PosePoints == {<<0, 16, 0>>, <<4, 0, 8>>}
PoseQuats == {PxIdentity, PxQuat(1, 0, 0, 0), PxQuat(0, 0, 1, 0), PxQuat(0, -1, 0, 0)}
Anchors == {VEC3_ZERO, <<0, 4, 0>>, <<4, 0, -4>>}
FilterValues == {PxFilterData0, <<1, 2, 4, 8>>}

ShapeLists ==
    UNION {[1..n -> FilterValues] : n \in 1..MaxShapes}

\* the two boxes as addEntityBox makes them, then posed and filtered
JointWorld(poseA, poseB, fdA) ==
    LET r1 == addEntityBox(WorldInit, << >>, "B", 1000, <<32, 1, 6>>, poseB.p)
        r2 == addEntityBox(r1.world, r1.ent, "A", 50, <<2, 2, 2>>, poseA.p)
        w  == r2.world
    IN [world |-> [w EXCEPT
                     !.body["A"].pose = poseA,
                     !.body["B"].pose = poseB,
                     !.body["A"].shapes =
                        [i \in 1..Len(fdA) |->
                            [geom |-> <<2, 2, 2>>, fd |-> fdA[i]]]],
        ent   |-> r2.ent]

InitJoint ==
    /\ px = initPhysics(PxInit, TRUE).s
    /\ \E pA \in {<<0, 20, 0>>}, qA \in {PxIdentity, PxQuat(0, 1, 0, 0)},
          pB \in PosePoints, qB \in PoseQuats, fdA \in ShapeLists :
         LET r == JointWorld(PxTransform(pA, qA), PxTransform(pB, qB), fdA)
         IN world = r.world /\ ent = r.ent
    /\ defect \in Defects
    /\ pc = "api"
    /\ exitCode = -1
    /\ polled = "none"
    /\ elapsed = 0
    /\ createJoint = FALSE
    /\ ticks = 0
    /\ tickLog = << >>
    /\ drawn = << >>
    /\ hist = HistInit

AddFixedJointCall ==
    /\ pc = "api"
    /\ hist.n = 0
    /\ \E posA \in Anchors, posB \in Anchors, useWorkaround \in BOOLEAN :
         /\ world' = addFixedJoint(world, "A", posA, "B", posB, useWorkaround, defect)
         /\ hist' = [hist EXCEPT !.op = "addFixedJoint", !.n = @ + 1,
                                 !.posA = posA, !.posB = posB,
                                 !.useWorkaround = useWorkaround,
                                 !.fdBefore = getFilterData(world, "A")]
    /\ UNCHANGED <<px, ent, defect, pc, exitCode, polled, elapsed,
                   createJoint, ticks, tickLog, drawn>>

NextJoint == AddFixedJointCall

SpecJoint == InitJoint /\ [][NextJoint]_vars

----------------------------------------------------------------------------
(* Spec: main() *)

Init ==
    /\ px = PxInit
    /\ world = WorldInit
    /\ ent = << >>
    /\ defect \in Defects
    /\ pc = "SDL_Init"
    /\ exitCode = -1
    /\ polled = "none"
    /\ elapsed = 0
    /\ createJoint = FALSE
    /\ ticks = 0
    /\ tickLog = << >>
    /\ drawn = << >>
    /\ hist = HistInit

\* if (SDL_Init(SDL_INIT_EVERYTHING) < 0) return 1;
SdlInit ==
    /\ pc = "SDL_Init"
    /\ \E ok \in BOOLEAN :
         IF ok THEN pc' = "graphics.init" /\ UNCHANGED exitCode
         ELSE pc' = "done" /\ exitCode' = 1
    /\ UNCHANGED <<px, world, ent, defect, polled, elapsed, createJoint,
                   ticks, tickLog, drawn, hist>>

\* if (graphics.init(1280, 720) == false) return 1;
GraphicsInit ==
    /\ pc = "graphics.init"
    /\ \E ok \in BOOLEAN :
         IF ok THEN pc' = "initPhysics" /\ UNCHANGED exitCode
         ELSE pc' = "done" /\ exitCode' = 1
    /\ UNCHANGED <<px, world, ent, defect, polled, elapsed, createJoint,
                   ticks, tickLog, drawn, hist>>

\* if (initPhysics() == false) return 0;
InitPhysicsStep ==
    /\ pc = "initPhysics"
    /\ \E cookOk \in BOOLEAN :
         LET r == initPhysics(px, cookOk)
         IN /\ px' = r.s
            /\ IF r.ret THEN pc' = "initGround" /\ UNCHANGED exitCode
               ELSE pc' = "done" /\ exitCode' = 0
    /\ UNCHANGED <<world, ent, defect, polled, elapsed, createJoint,
                   ticks, tickLog, drawn, hist>>

\* ground = initGround(vec3(90, 0.5, 90), VEC3_ZERO)
InitGround ==
    /\ pc = "initGround"
    /\ LET r == initGround(world, ent, "ground", <<360, 2, 360>>, VEC3_ZERO)
       IN world' = r.world /\ ent' = r.ent
    /\ pc' = "addC"
    /\ UNCHANGED <<px, defect, exitCode, polled, elapsed, createJoint,
                   ticks, tickLog, drawn, hist>>

\* C = addEntityBox(1000, vec3(8, 0.25, 1.5), vec3(0, 2, 0))
AddC ==
    /\ pc = "addC"
    /\ LET r == addEntityBox(world, ent, "C", 1000, <<32, 1, 6>>, <<0, 8, 0>>)
       IN world' = r.world /\ ent' = r.ent
    /\ pc' = "addB"
    /\ UNCHANGED <<px, defect, exitCode, polled, elapsed, createJoint,
                   ticks, tickLog, drawn, hist>>

\* B = addEntityBox(1000, vec3(8, 0.25, 1.5), vec3(0, 4, 0))
AddB ==
    /\ pc = "addB"
    /\ LET r == addEntityBox(world, ent, "B", 1000, <<32, 1, 6>>, <<0, 16, 0>>)
       IN world' = r.world /\ ent' = r.ent
    /\ pc' = "jointCB"
    /\ UNCHANGED <<px, defect, exitCode, polled, elapsed, createJoint,
                   ticks, tickLog, drawn, hist>>

\* addFixedJoint(*C, vec3(0, 1, 0), *B, vec3(0, -1, 0))
JointCB ==
    /\ pc = "jointCB"
    /\ world' = addFixedJoint(world, "C", <<0, 4, 0>>, "B", <<0, -4, 0>>,
                              FALSE, defect)
    /\ pc' = "addA"
    /\ UNCHANGED <<px, ent, defect, exitCode, polled, elapsed, createJoint,
                   ticks, tickLog, drawn, hist>>

\* A = addEntityBox(50, vec3(0.5, 0.5, 0.5), vec3(0, 5, 0)); t0 = now;
\* createJoint = false
AddA ==
    /\ pc = "addA"
    /\ LET r == addEntityBox(world, ent, "A", 50, <<2, 2, 2>>, <<0, 20, 0>>)
       IN world' = r.world /\ ent' = r.ent
    /\ elapsed' = 0
    /\ createJoint' = FALSE
    /\ pc' = "poll"
    /\ UNCHANGED <<px, defect, exitCode, polled, ticks, tickLog, drawn, hist>>

\* ev.type == SDL_QUIT || (ev.type == SDL_KEYDOWN && sym == SDLK_ESCAPE),
\* given what the poll delivered and, when it delivered nothing, whether the
\* uninitialised ev happens to read as a quit
QuitRequested(delivered, garbageQuit) ==
    IF delivered = "none" THEN garbageQuit
    ELSE delivered \in {"quit", "escape"}

\* SDL_PollEvent(&ev) and the quit test.  ev is uninitialised when the poll
\* delivers nothing, so the test may then go either way.
Poll ==
    /\ pc = "poll"
    /\ \E delivered \in {"none", "quit", "escape", "key"}, garbageQuit \in BOOLEAN :
         LET brk == QuitRequested(delivered, garbageQuit)
         IN /\ brk \/ ticks < MaxTicks
            /\ polled' = delivered
            /\ pc' = IF brk THEN "graphics.deinit" ELSE "trigger"
            /\ hist' = [hist EXCEPT !.quitPolled =
                                       @ \/ delivered \in {"quit", "escape"}]
    /\ tickLog' = << >>
    /\ UNCHANGED <<px, world, ent, defect, exitCode, elapsed, createJoint,
                   ticks, drawn>>

\* a variant that fires as soon as three seconds are reached
TriggerDueAtThree(cj, t) == ~cj /\ t >= JointDelay

\* !createJoint && duration(t1 - t0) > 3.f
TriggerDue(cj, t) == ~cj /\ t > JointDelay

\* t1 = now; the timed joint between A and B
Trigger ==
    /\ pc = "trigger"
    /\ \E t \in elapsed..(elapsed + MaxAdvance) :
         /\ elapsed' = t
         /\ IF TriggerDue(createJoint, t)
            THEN /\ world' = addFixedJoint(world, "A", VEC3_ZERO, "B", VEC3_ZERO,
                                           FALSE, defect)
                 /\ createJoint' = TRUE
                 /\ hist' = [hist EXCEPT
                               !.timedJoints = @ + 1,
                               !.jointElapsed = t,
                               !.jointLog = @ \o
                                  <<"debugDisplayFilterData(A)",
                                    "debugDisplayFilterData(B)",
                                    "addFixedJoint(A,B)",
                                    "debugDisplayFilterData(A)",
                                    "debugDisplayFilterData(B)">>,
                               !.exceeded = @ \/ t > JointDelay]
            ELSE /\ UNCHANGED <<world, createJoint>>
                 /\ hist' = [hist EXCEPT !.exceeded = @ \/ t > JointDelay]
    /\ pc' = "simulate"
    /\ UNCHANGED <<px, ent, defect, exitCode, polled, ticks, tickLog, drawn>>

\* gPhysicsScene->simulate(1.f/60.f)
Simulate ==
    /\ pc = "simulate"
    /\ tickLog' = Append(tickLog, "simulate")
    /\ pc' = "fetchResults"
    /\ UNCHANGED <<px, world, ent, defect, exitCode, polled, elapsed,
                   createJoint, ticks, drawn, hist>>

\* what one step of the engine may do to the dynamic bodies: the bodies of
\* one of these sets drop by a quarter unit and make a half turn
SimMoves == {{}, {"A"}, {"B", "C"}, {"A", "B", "C"}}
HalfTurn(id) == IF id = "A" THEN PxQuat(1, 0, 0, 0)
                ELSE IF id = "B" THEN PxQuat(0, 0, 1, 0)
                ELSE PxQuat(0, 1, 0, 0)

Stepped(w, moved) ==
    [w EXCEPT !.body =
        [id \in DOMAIN @ |->
            IF id \in moved /\ @[id].dynamic
            THEN [@[id] EXCEPT !.pose =
                    PxTransform(VAdd(@.p, <<0, -1, 0>>), QMul(HalfTurn(id), @.q))]
            ELSE @[id]]]

\* gPhysicsScene->fetchResults(true): blocks until the step is resolved
FetchResults ==
    /\ pc = "fetchResults"
    /\ \E moved \in SimMoves : world' = Stepped(world, moved)
    /\ tickLog' = Append(tickLog, "fetchResults")
    /\ pc' = "updateStates"
    /\ UNCHANGED <<px, ent, defect, exitCode, polled, elapsed, createJoint,
                   ticks, drawn, hist>>

UpdateStates ==
    /\ pc = "updateStates"
    /\ ent' = updateStates(world, ent)
    /\ tickLog' = Append(tickLog, "updateStates")
    /\ pc' = "clear"
    /\ UNCHANGED <<px, world, defect, exitCode, polled, elapsed, createJoint,
                   ticks, drawn, hist>>

\* graphics.clear()
Clear ==
    /\ pc = "clear"
    /\ drawn' = << >>
    /\ tickLog' = Append(tickLog, "clear")
    /\ pc' = "drawBox"
    /\ UNCHANGED <<px, world, ent, defect, exitCode, polled, elapsed,
                   createJoint, ticks, hist>>

\* the four graphics.drawBox(x->getModelMatrix(), colour) calls
DrawOrder == <<"ground", "A", "B", "C">>

DrawBoxes ==
    /\ pc = "drawBox"
    /\ drawn' = drawn \o [i \in 1..Len(DrawOrder) |->
                            [who |-> DrawOrder[i],
                             m   |-> getModelMatrix(ent[DrawOrder[i]])]]
    /\ tickLog' = tickLog \o [i \in 1..Len(DrawOrder) |-> "drawBox"]
    /\ pc' = "refresh"
    /\ UNCHANGED <<px, world, ent, defect, exitCode, polled, elapsed,
                   createJoint, ticks, hist>>

\* graphics.refresh()
Refresh ==
    /\ pc = "refresh"
    /\ tickLog' = Append(tickLog, "refresh")
    /\ pc' = "usleep"
    /\ UNCHANGED <<px, world, ent, defect, exitCode, polled, elapsed,
                   createJoint, ticks, drawn, hist>>

\* usleep(1000), then the next iteration
Yield ==
    /\ pc = "usleep"
    /\ tickLog' = Append(tickLog, "usleep")
    /\ ticks' = ticks + 1
    /\ pc' = "poll"
    /\ UNCHANGED <<px, world, ent, defect, exitCode, polled, elapsed,
                   createJoint, drawn, hist>>

\* graphics.deinit()
GraphicsDeinit ==
    /\ pc = "graphics.deinit"
    /\ hist' = [hist EXCEPT !.shutdown = Append(@, "graphics.deinit")]
    /\ pc' = "deinitPhysics"
    /\ UNCHANGED <<px, world, ent, defect, exitCode, polled, elapsed,
                   createJoint, ticks, tickLog, drawn>>

\* deinitPhysics()
DeinitPhysicsStep ==
    /\ pc = "deinitPhysics"
    /\ \E crash \in BOOLEAN :
         LET s == deinitPhysics(px, crash)
         IN /\ px' = s
            /\ pc' = IF s.crashed THEN "crashed" ELSE "SDL_Quit"
    /\ hist' = [hist EXCEPT !.shutdown = Append(@, "deinitPhysics")]
    /\ UNCHANGED <<world, ent, defect, exitCode, polled, elapsed,
                   createJoint, ticks, tickLog, drawn>>

\* SDL_Quit(); return 0;
SdlQuit ==
    /\ pc = "SDL_Quit"
    /\ hist' = [hist EXCEPT !.shutdown = Append(@, "SDL_Quit")]
    /\ exitCode' = 0
    /\ pc' = "done"
    /\ UNCHANGED <<px, world, ent, defect, polled, elapsed, createJoint,
                   ticks, tickLog, drawn>>

Next ==
    \/ SdlInit \/ GraphicsInit \/ InitPhysicsStep
    \/ InitGround \/ AddC \/ AddB \/ JointCB \/ AddA
    \/ Poll \/ Trigger \/ Simulate \/ FetchResults \/ UpdateStates
    \/ Clear \/ DrawBoxes \/ Refresh \/ Yield
    \/ GraphicsDeinit \/ DeinitPhysicsStep \/ SdlQuit

Spec == Init /\ [][Next]_vars

----------------------------------------------------------------------------
(* Properties of the session lifecycle (SpecSession) *)

\* the release calls made by the last deinitPhysics() call
LastReleases ==
    SubSeq(px.relLog, Len(hist.pre.relLog) + 1, Len(px.relLog))

\* the kinds of the engine objects those calls released, in call order
RECURSIVE KindsOf(_)
KindsOf(calls) ==
    IF calls = << >> THEN << >>
    ELSE IF Head(calls).h = NULL THEN KindsOf(Tail(calls))
         ELSE <<px.objs[Head(calls).h].kind>> \o KindsOf(Tail(calls))

RECURSIVE Without(_, _)
Without(seq, x) ==
    IF seq = << >> THEN << >>
    ELSE IF Head(seq) = x THEN Without(Tail(seq), x)
         ELSE <<Head(seq)>> \o Without(Tail(seq), x)

DeinitReturned ==
    hist.op = "deinitPhysics" /\ hist.pre.gFoundation # NULL /\ ~px.crashed

\* C3: after deinitPhysics() has run on an initialized session, each of the
\* six session handles (foundation, dispatcher, cooking stage, physics
\* instance, default material, scene) is null.
C3_AllHandlesCleared ==
    DeinitReturned =>
        /\ px.gFoundation = NULL
        /\ px.gDispatcher = NULL
        /\ px.gCooking = NULL
        /\ px.gPhysics = NULL
        /\ px.gPhysicsMaterial = NULL
        /\ px.gPhysicsScene = NULL

\* C4: a deinitPhysics() call made while the session is not initialized
\* releases nothing, dereferences no handle and leaves the session (handles,
\* engine objects, release log) exactly as it was.
C4_DeinitUninitNoop ==
    (hist.op = "deinitPhysics" /\ hist.pre.gFoundation = NULL) => px = hist.pre

\* a deinitPhysics() directly after another deinitPhysics(): the foundation
\* handle is null while the scene handle still holds the released scene
C4_Witness ==
    /\ hist.op = "deinitPhysics"
    /\ hist.pre.gFoundation = NULL
    /\ hist.pre.gPhysicsScene # NULL
    /\ Len(hist.pre.relLog) > 0

\* C5: initPhysics() on an initialized session returns false, creates no
\* engine object and leaves every handle as the first call set it.
C5_InitTwice ==
    (hist.op = "initPhysics" /\ hist.pre.gFoundation # NULL) =>
        /\ hist.ret = FALSE
        /\ px = hist.pre

\* a second initPhysics() on a session whose cooking stage failed to create
C5_Witness ==
    /\ hist.op = "initPhysics"
    /\ hist.pre.gFoundation # NULL
    /\ hist.pre.gCooking = NULL
    /\ hist.ret = FALSE

\* C9: deinitPhysics() on an initialized session releases the scene, the
\* dispatcher, the physics instance, the cooking stage and the foundation in
\* that order, each exactly once, and never an object after one it depends on.
C9_ReleaseOrder ==
    (hist.op = "deinitPhysics" /\ hist.pre.gFoundation # NULL) =>
        /\ Without(KindsOf(LastReleases), "profileZoneManager")
             = <<"scene", "dispatcher", "physics", "cooking", "foundation">>
        /\ \A i, j \in 1..Len(LastReleases) :
             (i < j /\ LastReleases[i].h # NULL /\ LastReleases[j].h # NULL)
                => LastReleases[i].h \notin px.objs[LastReleases[j].h].deps

\* C10: every handle deinitPhysics() calls release() on is non-null at the
\* moment of the call.
C10_NoNullRelease ==
    \A i \in 1..Len(px.relLog) : px.relLog[i].h # NULL

----------------------------------------------------------------------------
(* Properties of addFixedJoint (SpecJoint) *)

\* world-space point of the local anchor `local` on body id
WorldAnchor(w, id, local) ==
    TMul(w.body[id].pose, PxTransform(local, PxIdentity)).p

\* C1: right after addFixedJoint returns, anchor posA on body A and anchor
\* posB on body B are the same world-space point, whatever B's pose.
C1_AnchorsCoincide ==
    hist.op = "addFixedJoint" =>
        WorldAnchor(world, "A", hist.posA) = WorldAnchor(world, "B", hist.posB)

\* C2: with useWorkaround, on an engine whose joint creation resets the
\* filter data of the second body, A's per-shape filter data after the call
\* equals the data read before the call.
C2_FilterDataPreserved ==
    (hist.op = "addFixedJoint" /\ hist.useWorkaround /\ "create" \in defect) =>
        getFilterData(world, "A") = hist.fdBefore

----------------------------------------------------------------------------
(* Properties of the main loop (Spec) *)

IsPrefix(a, b) == Len(a) <= Len(b) /\ a = SubSeq(b, 1, Len(a))

InSeq(x, seq) == \E i \in 1..Len(seq) : seq[i] = x

BracketedJoint ==
    <<"debugDisplayFilterData(A)", "debugDisplayFilterData(B)",
      "addFixedJoint(A,B)",
      "debugDisplayFilterData(A)", "debugDisplayFilterData(B)">>

\* C6: the timed joint between A and B is created at most once, only on a
\* tick whose measured elapsed time exceeds three seconds, bracketed by the
\* filter-data logging, and it has been created as soon as a tick that did
\* not quit has measured more than three seconds.
C6_TimedJointOnce ==
    /\ hist.timedJoints <= 1
    /\ hist.timedJoints = 1 =>
         /\ hist.jointElapsed > JointDelay
         /\ hist.jointLog = BracketedJoint
         /\ Len(world.joints) = 2
         /\ world.joints[2].actor0 = "B" /\ world.joints[2].actor1 = "A"
    /\ hist.exceeded => hist.timedJoints = 1
    /\ hist.timedJoints = 0 => Len(world.joints) <= 1

\* a later tick measured yet more time after the joint was made
C6_Witness ==
    /\ hist.timedJoints = 1
    /\ elapsed > hist.jointElapsed
    /\ pc = "simulate"

ExpectedTick ==
    <<"simulate", "fetchResults", "updateStates", "clear",
      "drawBox", "drawBox", "drawBox", "drawBox", "refresh", "usleep">>

\* the model matrix of a box of the given scale posed as the body is
BodyMatrix(b, scale) ==
    << QRotate(b.pose.q, <<scale[1], 0, 0>>),
       QRotate(b.pose.q, <<0, scale[2], 0>>),
       QRotate(b.pose.q, <<0, 0, scale[3]>>),
       b.pose.p >>

\* C7: a tick that does not quit performs simulate, fetchResults,
\* updateStates (once), clear, the draws, refresh, yield in this order, every
\* entity is drawn, and every dynamic entity is drawn where its own body is
\* after the step.
C7_TickOrder ==
    /\ IsPrefix(tickLog, ExpectedTick)
    /\ (pc = "poll" /\ ticks > 0) => tickLog = ExpectedTick
    /\ InSeq("drawBox", tickLog) =>
         /\ {drawn[i].who : i \in 1..Len(drawn)} = DOMAIN ent
         /\ Len(drawn) = Cardinality(DOMAIN ent)
         /\ \A i \in 1..Len(drawn) :
              world.body[drawn[i].who].dynamic =>
                 drawn[i].m = BodyMatrix(world.body[drawn[i].who],
                                         ent[drawn[i].who].scale)

\* a finished tick in which A and B were drawn turned away from the identity
C7_Witness ==
    /\ tickLog = ExpectedTick
    /\ Len(drawn) = 4
    /\ world.body["A"].pose.q = PxQuat(1, 0, 0, 0)
    /\ world.body["B"].pose.q = PxQuat(0, 0, 1, 0)
    /\ world.body["A"].pose.p # world.body["B"].pose.p

ShutdownOrder == <<"graphics.deinit", "deinitPhysics", "SDL_Quit">>

\* C8: once a poll has yielded a quit event or an escape key-down, the tick
\* does nothing more, graphics, the physics session and the platform are
\* shut down in this order, and the program ends with exit code 0.
C8_QuitShutsDown ==
    hist.quitPolled =>
        /\ tickLog = << >>
        /\ IsPrefix(hist.shutdown, ShutdownOrder)
        /\ pc \in {"graphics.deinit", "deinitPhysics", "SDL_Quit", "done"}
        /\ pc = "done" => (exitCode = 0 /\ hist.shutdown = ShutdownOrder)

====
